---- MODULE Spec2Model ----
(***************************************************************************)
(* monomaxia.c: a two-player duel on a 20x10 grid.  The game state is the  *)
(* GameState struct (two ships with five projectile slots each, the        *)
(* gameOver flag, the static map); the main loop runs HandleInput,         *)
(* UpdateShips, UpdateProjectiles and CheckHits once per frame while the   *)
(* game is not over, then draws and polls the keyboard.                    *)
(***************************************************************************)
EXTENDS Integers, Sequences, FiniteSets, TLC

----------------------------------------------------------------------------
(* Program constants (#define)                                             *)

MAP_WIDTH == 20
MAP_HEIGHT == 10
MAX_PLAYERS == 2
MAX_PROJECTILES == 5
MAX_SPEED == 1
START_HP == 3

(* Bounds of the model: the number of frames of arbitrary keyboard input   *)
(* explored after a recorded key trace is left, and the number of keys     *)
(* held down at once in such a frame.                                      *)
MaxLiveFrames == 1
MaxKeysDown == 2

----------------------------------------------------------------------------
(* The keyboard, as the program reads it through IsKeyDown / IsKeyPressed  *)

MoveKeys == {"W", "S", "A", "D", "UP", "DOWN", "LEFT", "RIGHT"}
FireKeys == {"LEFT_SHIFT", "RIGHT_SHIFT"}
Keys == MoveKeys \cup FireKeys

(* The key sets a frame of arbitrary input may hold.                       *)
KeySets == {ks \in SUBSET Keys : Cardinality(ks) <= MaxKeysDown}

(* n polls that all find the key set ks.                                   *)
Hold(n, ks) == [k \in 1 .. n |-> ks]

(* Recorded key traces: element k is the key set found by the poll that    *)
(* ends frame k (the first frame runs before any poll, with no key down).  *)
(* Opening: player 1 fires once, standing still.                           *)
Opening == <<{"LEFT_SHIFT"}>> \o Hold(3, {})

(* Volley: player 1 steps left to the wall, then fires six times moving    *)
(* right, a press every other frame; the shots fly the length of row 2.    *)
Volley ==
    <<{"A"}>>
    \o <<{"D", "LEFT_SHIFT"}, {}, {"D", "LEFT_SHIFT"}, {}, {"D", "LEFT_SHIFT"}, {},
         {"D", "LEFT_SHIFT"}, {}, {"D", "LEFT_SHIFT"}, {}, {"D", "LEFT_SHIFT"}>>
    \o Hold(12, {})

(* Duel: both ships ram a wall down to 1 hp, meet on (9,8) and fire at     *)
(* once while moving left together; the keys are then released.            *)
Duel ==
    <<{"W", "RIGHT"}, {"W", "RIGHT"}, {"W"}>>
    \o Hold(7, {"S", "D", "LEFT"})
    \o Hold(2, {"LEFT"})
    \o <<{"A", "LEFT", "LEFT_SHIFT", "RIGHT_SHIFT"}>>
    \o Hold(2, {})

(* Skirmish: the ships close in on row 8 and exchange one shot each.       *)
Skirmish ==
    Hold(6, {"S", "D", "LEFT"})
    \o <<{"D", "LEFT_SHIFT"}>> \o Hold(3, {})
    \o <<{"LEFT", "RIGHT_SHIFT"}>> \o Hold(3, {})

(* LastStand: the ships close in on row 8; player 2 fires along the row    *)
(* while player 1 keeps ramming the bottom wall, its third ram falling in  *)
(* the tick the shot arrives.                                              *)
LastStand ==
    Hold(6, {"S", "D", "LEFT"})
    \o <<{"S", "LEFT", "RIGHT_SHIFT"}, {"S"}, {}, {"S"}>>

Replays == <<Opening, Volley, Duel, Skirmish, LastStand>>

----------------------------------------------------------------------------
(* The map                                                                 *)

(* InitMap: '#' on the boundary ring, '.' inside, then three 'X' cells.    *)
InitMapCell(r, c) ==
    IF (r = 3 /\ c = 5) \/ (r = 5 /\ c = 8) \/ (r = 6 /\ c = 10) THEN "X"
    ELSE IF r = 0 \/ r = MAP_HEIGHT - 1 \/ c = 0 \/ c = MAP_WIDTH - 1 THEN "#"
    ELSE "."

map == [r \in 0 .. MAP_HEIGHT - 1 |-> [c \in 0 .. MAP_WIDTH - 1 |-> InitMapCell(r, c)]]

----------------------------------------------------------------------------
(* Construction                                                            *)

InitProjectile == [x |-> -1, y |-> -1, dx |-> 0, dy |-> 0, active |-> FALSE]

InitShip(startX, startY) ==
    [x |-> startX, y |-> startY, hp |-> START_HP, vx |-> 0, vy |-> 0,
     projectiles |-> [i \in 0 .. MAX_PROJECTILES - 1 |-> InitProjectile]]

InitGame ==
    [i \in 0 .. MAX_PLAYERS - 1 |->
        IF i = 0 THEN InitShip(2, 2)
                 ELSE InitShip(MAP_WIDTH - 2, MAP_HEIGHT - 2)]

VARIABLES
    players,     \* game.players[i].ship, i in 0 .. MAX_PLAYERS - 1
    gameOver,    \* game.gameOver
    pc,          \* the statement of the main loop's body that runs next
    keyDown,     \* the keys held down, as polled at the end of the last frame
    keyPressed,  \* the fire keys that went down at that poll
    replay,      \* the recorded key trace this run follows (0 once it left it)
    cursor,      \* the number of polls taken from that trace
    live         \* the number of polls of arbitrary input taken after it

vars == <<players, gameOver, pc, keyDown, keyPressed, replay, cursor, live>>

shipA == players[0]
shipB == players[1]

(* The guard of the main loop's update block: if (!game.gameOver).         *)
UpdateEnabled_Always == TRUE

UpdateEnabled == ~gameOver

----------------------------------------------------------------------------
(* HandleInput                                                             *)

(* One axis of a ship's velocity: reset to 0, then the negative key, then  *)
(* the positive key, the later assignment winning.                         *)
AxisVelocity(down, negKey, posKey) ==
    IF posKey \in down THEN MAX_SPEED
    ELSE IF negKey \in down THEN -MAX_SPEED
    ELSE 0

FirstInactive_Overwrite(projectiles) ==
    IF \E i \in 0 .. MAX_PROJECTILES - 1 : ~projectiles[i].active
    THEN CHOOSE i \in 0 .. MAX_PROJECTILES - 1 :
            /\ ~projectiles[i].active
            /\ \A j \in 0 .. i - 1 : projectiles[j].active
    ELSE 0

FirstInactive_Last(projectiles) ==
    IF \E i \in 0 .. MAX_PROJECTILES - 1 : ~projectiles[i].active
    THEN CHOOSE i \in 0 .. MAX_PROJECTILES - 1 :
            /\ ~projectiles[i].active
            /\ \A j \in i + 1 .. MAX_PROJECTILES - 1 : projectiles[j].active
    ELSE MAX_PROJECTILES

(* The index of the first slot with active = false, MAX_PROJECTILES if none *)
FirstInactive(projectiles) ==
    IF \E i \in 0 .. MAX_PROJECTILES - 1 : ~projectiles[i].active
    THEN CHOOSE i \in 0 .. MAX_PROJECTILES - 1 :
            /\ ~projectiles[i].active
            /\ \A j \in 0 .. i - 1 : projectiles[j].active
    ELSE MAX_PROJECTILES

FireDirection_Down(vx, vy) ==
    IF vx = 0 /\ vy = 0 THEN [dx |-> 0, dy |-> 1] ELSE [dx |-> vx, dy |-> vy]

(* The direction of a new shot: the ship's velocity, upward if it is still *)
FireDirection(vx, vy) ==
    IF vx = 0 /\ vy = 0 THEN [dx |-> 0, dy |-> -1] ELSE [dx |-> vx, dy |-> vy]

Fire_AfterMove(ship) ==
    LET i == FirstInactive(ship.projectiles)
        d == FireDirection(ship.vx, ship.vy)
    IN  IF i = MAX_PROJECTILES THEN ship
        ELSE [ship EXCEPT !.projectiles[i] =
                 [x |-> ship.x + ship.vx, y |-> ship.y + ship.vy,
                  dx |-> d.dx, dy |-> d.dy, active |-> TRUE]]

(* The fire loop: the first inactive slot is set, or nothing changes.      *)
Fire(ship) ==
    LET i == FirstInactive(ship.projectiles)
        d == FireDirection(ship.vx, ship.vy)
    IN  IF i = MAX_PROJECTILES THEN ship
        ELSE [ship EXCEPT !.projectiles[i] =
                 [x |-> ship.x, y |-> ship.y, dx |-> d.dx, dy |-> d.dy, active |-> TRUE]]

(* One player's part of HandleInput.                                       *)
PlayerInput(ship, up, dn, lf, rt, fireKey) ==
    LET steered == [ship EXCEPT !.vx = AxisVelocity(keyDown, lf, rt),
                                !.vy = AxisVelocity(keyDown, up, dn)]
    IN  IF fireKey \in keyPressed THEN Fire(steered) ELSE steered

HandleInput ==
    /\ pc = "HandleInput"
    /\ UpdateEnabled
    /\ players' = [players EXCEPT
            ![0] = PlayerInput(@, "W", "S", "A", "D", "LEFT_SHIFT"),
            ![1] = PlayerInput(@, "UP", "DOWN", "LEFT", "RIGHT", "RIGHT_SHIFT")]
    /\ pc' = "UpdateShips"
    /\ UNCHANGED <<gameOver, keyDown, keyPressed, replay, cursor, live>>

(* The loop body when game.gameOver is set: no update runs.                *)
SkipUpdate ==
    /\ pc = "HandleInput"
    /\ ~UpdateEnabled
    /\ pc' = "Draw"
    /\ UNCHANGED <<players, gameOver, keyDown, keyPressed, replay, cursor, live>>

----------------------------------------------------------------------------
(* UpdateShips                                                             *)

ShipCollides_NoObstacle(nx, ny) ==
    \/ nx < 0 \/ nx >= MAP_WIDTH
    \/ ny < 0 \/ ny >= MAP_HEIGHT
    \/ map[ny][nx] = "#"

ShipCollides(nx, ny) ==
    \/ nx < 0 \/ nx >= MAP_WIDTH
    \/ ny < 0 \/ ny >= MAP_HEIGHT
    \/ map[ny][nx] = "#"
    \/ map[ny][nx] = "X"

MoveShip_Heal(ship) ==
    LET nx == ship.x + ship.vx
        ny == ship.y + ship.vy
    IN  IF ShipCollides(nx, ny)
        THEN [ship EXCEPT !.hp = @ + 1]
        ELSE [ship EXCEPT !.x = nx, !.y = ny]

MoveShip_NoDamage(ship) ==
    LET nx == ship.x + ship.vx
        ny == ship.y + ship.vy
    IN  IF ShipCollides(nx, ny)
        THEN ship
        ELSE [ship EXCEPT !.x = nx, !.y = ny]

MoveShip(ship) ==
    LET nx == ship.x + ship.vx
        ny == ship.y + ship.vy
    IN  IF ShipCollides(nx, ny)
        THEN [ship EXCEPT !.hp = @ - 1]
        ELSE [ship EXCEPT !.x = nx, !.y = ny]

ShipSunk_Below(ship) ==
    /\ ShipCollides(ship.x + ship.vx, ship.y + ship.vy)
    /\ ship.hp - 1 < 0

(* Whether the ship's move collides and leaves it with hp <= 0.            *)
ShipSunk(ship) ==
    /\ ShipCollides(ship.x + ship.vx, ship.y + ship.vy)
    /\ ship.hp - 1 <= 0

UpdateShips ==
    /\ pc = "UpdateShips"
    /\ players' = [i \in 0 .. MAX_PLAYERS - 1 |-> MoveShip(players[i])]
    /\ gameOver' = (gameOver \/ \E i \in 0 .. MAX_PLAYERS - 1 : ShipSunk(players[i]))
    /\ pc' = "UpdateProjectiles"
    /\ UNCHANGED <<keyDown, keyPressed, replay, cursor, live>>

----------------------------------------------------------------------------
(* UpdateProjectiles                                                       *)

ProjectileCollides_NoObstacle(nx, ny) ==
    \/ nx < 0 \/ nx >= MAP_WIDTH
    \/ ny < 0 \/ ny >= MAP_HEIGHT
    \/ map[ny][nx] = "#"

ProjectileCollides(nx, ny) ==
    \/ nx < 0 \/ nx >= MAP_WIDTH
    \/ ny < 0 \/ ny >= MAP_HEIGHT
    \/ map[ny][nx] = "#"
    \/ map[ny][nx] = "X"

MoveProjectile_Overshoot(p) ==
    LET nx == p.x + p.dx
        ny == p.y + p.dy
    IN  IF ~p.active THEN p
        ELSE IF ProjectileCollides(nx, ny)
        THEN [p EXCEPT !.x = nx, !.y = ny, !.active = FALSE]
        ELSE [p EXCEPT !.x = nx, !.y = ny]

MoveProjectile_Stuck(p) ==
    LET nx == p.x + p.dx
        ny == p.y + p.dy
    IN  IF ~p.active THEN p
        ELSE IF ProjectileCollides(nx, ny)
        THEN p
        ELSE [p EXCEPT !.x = nx, !.y = ny]

MoveProjectile(p) ==
    LET nx == p.x + p.dx
        ny == p.y + p.dy
    IN  IF ~p.active THEN p
        ELSE IF ProjectileCollides(nx, ny)
        THEN [p EXCEPT !.active = FALSE]
        ELSE [p EXCEPT !.x = nx, !.y = ny]

UpdateProjectiles ==
    /\ pc = "UpdateProjectiles"
    /\ players' = [i \in 0 .. MAX_PLAYERS - 1 |->
            [players[i] EXCEPT !.projectiles =
                [j \in 0 .. MAX_PROJECTILES - 1 |-> MoveProjectile(@[j])]]]
    /\ pc' = "CheckHits"
    /\ UNCHANGED <<gameOver, keyDown, keyPressed, replay, cursor, live>>

----------------------------------------------------------------------------
(* CheckHits                                                               *)

(* Whether projectile p hits the ship it is checked against.               *)
Hits(p, target) == p.active /\ p.x = target.x /\ p.y = target.y

RECURSIVE HitLoop_OwnCell(_, _, _)
HitLoop_OwnCell(shooter, target, i) ==
    IF i >= MAX_PROJECTILES
    THEN [shooter |-> shooter, target |-> target, returned |-> FALSE]
    ELSE IF Hits(shooter.projectiles[i], shooter)
    THEN LET t == [target EXCEPT !.hp = @ - 1]
             s == [shooter EXCEPT !.projectiles[i].active = FALSE]
         IN  IF t.hp <= 0
             THEN [shooter |-> s, target |-> t, returned |-> TRUE]
             ELSE HitLoop_OwnCell(s, t, i + 1)
    ELSE HitLoop_OwnCell(shooter, target, i + 1)

(* One of the two loops of CheckHits, from slot i on: every hit takes one  *)
(* hp from the target and deactivates the projectile; the loop (and the    *)
(* function) returns as soon as the target's hp is <= 0.                   *)
RECURSIVE HitLoop(_, _, _)
HitLoop(shooter, target, i) ==
    IF i >= MAX_PROJECTILES
    THEN [shooter |-> shooter, target |-> target, returned |-> FALSE]
    ELSE IF Hits(shooter.projectiles[i], target)
    THEN LET t == [target EXCEPT !.hp = @ - 1]
             s == [shooter EXCEPT !.projectiles[i].active = FALSE]
         IN  IF t.hp <= 0
             THEN [shooter |-> s, target |-> t, returned |-> TRUE]
             ELSE HitLoop(s, t, i + 1)
    ELSE HitLoop(shooter, target, i + 1)

(* The early return at the top of CheckHits.                               *)
BothSunk(a, b) == a.hp <= 0 /\ b.hp <= 0

HitsResult_BothLoops(a, b, over) ==
    IF BothSunk(a, b)
    THEN [A |-> a, B |-> b, over |-> TRUE]
    ELSE LET first == HitLoop(a, b, 0)
             second == HitLoop(first.target, first.shooter, 0)
         IN  [A |-> second.target, B |-> second.shooter,
              over |-> (over \/ first.returned \/ second.returned)]

(* CheckHits as a function of the two ships: the ships and gameOver after. *)
HitsResult(a, b, over) ==
    IF BothSunk(a, b)
    THEN [A |-> a, B |-> b, over |-> TRUE]
    ELSE LET first == HitLoop(a, b, 0)
         IN  IF first.returned
             THEN [A |-> first.shooter, B |-> first.target, over |-> TRUE]
             ELSE LET second == HitLoop(first.target, first.shooter, 0)
                  IN  [A |-> second.target, B |-> second.shooter,
                       over |-> (over \/ second.returned)]

CheckHits ==
    /\ pc = "CheckHits"
    /\ LET r == HitsResult(players[0], players[1], gameOver)
       IN  /\ players' = [players EXCEPT ![0] = r.A, ![1] = r.B]
           /\ gameOver' = r.over
    /\ pc' = "Draw"
    /\ UNCHANGED <<keyDown, keyPressed, replay, cursor, live>>

----------------------------------------------------------------------------
(* Drawing and the end of the frame                                        *)

GameOverMessage_Swapped(hpA, hpB) ==
    IF hpA <= 0 /\ hpB <= 0 THEN "TIE"
    ELSE IF hpB > hpA THEN "Winner: Player1" ELSE "Winner: Player2"

(* The message drawn when game.gameOver is set: a tie, or the winner's     *)
(* index.                                                                  *)
GameOverMessage(hpA, hpB) ==
    IF hpA <= 0 /\ hpB <= 0 THEN "TIE"
    ELSE IF hpB > hpA THEN "Winner: Player2" ELSE "Winner: Player1"

(* EndDrawing polls the keyboard: ks is the key set now down; a fire key   *)
(* counts as pressed when it is down now and was up at the last poll.      *)
PollInputEvents(ks) ==
    /\ keyPressed' = (ks \ keyDown) \cap FireKeys
    /\ keyDown' = ks

(* The end of a frame whose poll follows the recorded trace.               *)
DrawReplay ==
    /\ pc = "Draw"
    /\ live = 0
    /\ cursor < Len(Replays[replay])
    /\ PollInputEvents(Replays[replay][cursor + 1])
    /\ cursor' = cursor + 1
    /\ pc' = "HandleInput"
    /\ UNCHANGED <<players, gameOver, replay, live>>

(* The end of a frame whose poll finds arbitrary keys down; the run has    *)
(* left its trace, so the trace and the place in it are forgotten.         *)
DrawLive ==
    /\ pc = "Draw"
    /\ live < MaxLiveFrames
    /\ \E ks \in KeySets : PollInputEvents(ks)
    /\ live' = live + 1
    /\ replay' = 0
    /\ cursor' = 0
    /\ pc' = "HandleInput"
    /\ UNCHANGED <<players, gameOver>>

----------------------------------------------------------------------------
(* The program                                                             *)

Init ==
    /\ players = InitGame
    /\ gameOver = FALSE
    /\ pc = "HandleInput"
    /\ keyDown = {}
    /\ keyPressed = {}
    /\ replay \in 1 .. Len(Replays)
    /\ cursor = 0
    /\ live = 0

Next ==
    \/ HandleInput
    \/ SkipUpdate
    \/ UpdateShips
    \/ UpdateProjectiles
    \/ CheckHits
    \/ DrawReplay
    \/ DrawLive

Spec == Init /\ [][Next]_vars

TypeOK ==
    /\ gameOver \in BOOLEAN
    /\ pc \in {"HandleInput", "UpdateShips", "UpdateProjectiles", "CheckHits", "Draw"}
    /\ keyDown \subseteq Keys
    /\ keyPressed \subseteq FireKeys

----------------------------------------------------------------------------
(* Properties                                                              *)

Ships == 0 .. MAX_PLAYERS - 1
Slots == 0 .. MAX_PROJECTILES - 1

InGrid(x, y) == x >= 0 /\ x < MAP_WIDTH /\ y >= 0 /\ y < MAP_HEIGHT

(* A blocking cell: out of range, wall or obstacle.                        *)
CellBlocking(x, y) == ~InGrid(x, y) \/ map[y][x] = "#" \/ map[y][x] = "X"

(* The recorded trace r is being followed and k polls of it were taken.    *)
OnTrace(r, k) == live = 0 /\ cursor = k /\ Replays[replay] = r

(* C1 Boundary containment: in every reachable state each ship is inside   *)
(* the 20x10 grid and the cell it is on is open ('.'), never a wall and    *)
(* never an obstacle.                                                      *)
C1_BoundaryContainment ==
    \A i \in Ships :
        /\ players[i].x >= 0 /\ players[i].x < 20
        /\ players[i].y >= 0 /\ players[i].y < 10
        /\ map[players[i].y][players[i].x] = "."

(* A ship has just been refused a move into an obstacle cell.              *)
C1_Witness ==
    /\ pc = "UpdateProjectiles"
    /\ \E i \in Ships :
        /\ players[i].hp < START_HP
        /\ InGrid(players[i].x + players[i].vx, players[i].y + players[i].vy)
        /\ map[players[i].y + players[i].vy][players[i].x + players[i].vx] = "X"

(* Some projectile of shooter is active on the cell of target.             *)
ShotOn(shooter, target) ==
    \E j \in Slots : /\ shooter.projectiles[j].active
                     /\ shooter.projectiles[j].x = target.x
                     /\ shooter.projectiles[j].y = target.y

(* The state of the tie scenario, at hit resolution.                       *)
TieScenario ==
    /\ pc = "CheckHits"
    /\ players[0].hp = 1 /\ players[1].hp = 1
    /\ ShotOn(players[0], players[1])
    /\ ShotOn(players[1], players[0])

(* C2 Tie scenario: when both ships have health 1 and each has an active   *)
(* projectile on the other's cell, hit resolution leaves both healths 0,   *)
(* sets gameOver, and the message drawn is the tie.                        *)
C2_TieScenario ==
    [][TieScenario =>
        /\ players'[0].hp = 0 /\ players'[1].hp = 0
        /\ gameOver'
        /\ GameOverMessage(players'[0].hp, players'[1].hp) = "TIE"]_vars

(* C3 Terminal freeze: once gameOver is set at the top of the loop, no     *)
(* later step changes a ship (position, health, velocity, the five slots)  *)
(* and gameOver stays set, whatever keys are down.                         *)
C3_TerminalFreeze ==
    [][(gameOver /\ pc \in {"HandleInput", "Draw"}) =>
            (players' = players /\ gameOver')]_vars

(* A frame after the end of the game found a move key and a fire key down  *)
(* and did not act on them.                                                *)
C3_Witness ==
    /\ gameOver
    /\ pc = "Draw"
    /\ "D" \in keyDown /\ "LEFT_SHIFT" \in keyPressed
    /\ players[0].vx # MAX_SPEED

(* C4 Terminal condition: gameOver is set exactly when some ship's health  *)
(* is <= 0, in every state and so at the end of every tick.                *)
C4_TerminalCondition ==
    gameOver <=> (players[0].hp <= 0 \/ players[1].hp <= 0)

(* A tick ended with a ship sunk.                                          *)
C4_Witness ==
    /\ pc = "Draw"
    /\ gameOver
    /\ players[1].hp <= 0

(* C5 Collision damage: UpdateShips takes exactly 1 hp from a ship whose   *)
(* target cell is blocking and leaves it in place; otherwise it moves the  *)
(* ship to the target and keeps its hp.  This holds on every tick, so      *)
(* pressing on repeats the damage.                                         *)
C5_CollisionDamage ==
    [][pc = "UpdateShips" =>
        \A i \in Ships :
            LET s == players[i]
                t == players'[i]
            IN  IF CellBlocking(s.x + s.vx, s.y + s.vy)
                THEN t.hp = s.hp - 1 /\ t.x = s.x /\ t.y = s.y
                ELSE t.hp = s.hp /\ t.x = s.x + s.vx /\ t.y = s.y + s.vy]_vars

(* Player 1 has rammed the top wall on two ticks in a row.                 *)
C5_Witness ==
    /\ OnTrace(Duel, 3)
    /\ pc = "UpdateProjectiles"
    /\ players[0].hp = 1
    /\ players[0].x = 2 /\ players[0].y = 1 /\ players[0].vy = -1

(* The slots of shooter whose projectile is active on the cell of target.  *)
ShotsOn(shooter, target) ==
    {j \in Slots : /\ shooter.projectiles[j].active
                   /\ shooter.projectiles[j].x = target.x
                   /\ shooter.projectiles[j].y = target.y}

SameCell(a, b) == a.x = b.x /\ a.y = b.y

(* What one step may do to the health of ship i: UpdateShips takes 1 for a *)
(* blocked move, CheckHits at most 1 for each opposing active projectile   *)
(* on the ship's cell, and nothing else changes it.                        *)
HealthCauses(i) ==
    LET s == players[i]
        o == players[1 - i]
        t == players'[i]
    IN  /\ pc \in {"HandleInput", "UpdateProjectiles", "Draw"} => t.hp = s.hp
        /\ pc = "UpdateShips" =>
              t.hp = s.hp - (IF CellBlocking(s.x + s.vx, s.y + s.vy) THEN 1 ELSE 0)
        /\ pc = "CheckHits" =>
              /\ t.hp <= s.hp
              /\ s.hp - t.hp <= Cardinality(ShotsOn(o, s))

AllActive(ship) == \A j \in Slots : ship.projectiles[j].active

(* C7 Slot exhaustion: HandleInput leaves the five slots of a ship whose   *)
(* slots are all active exactly as they were, fire key pressed or not.     *)
C7_SlotExhaustion ==
    [][pc = "HandleInput" =>
        \A i \in Ships :
            AllActive(players[i]) =>
                players'[i].projectiles = players[i].projectiles]_vars

(* Player 1's sixth press: HandleInput has run with the fire key pressed,  *)
(* all five slots are in flight ahead of the ship and none is on its cell. *)
C7_Witness ==
    /\ OnTrace(Volley, 12)
    /\ pc = "UpdateShips"
    /\ "LEFT_SHIFT" \in keyPressed
    /\ AllActive(players[0])
    /\ ShotsOn(players[0], players[0]) = {}

(* C8 Health is monotonically non-increasing: no step raises a ship's      *)
(* health, and it is never above the starting value 3.                     *)
C8_HealthMonotone ==
    /\ [](\A i \in Ships : players[i].hp <= 3)
    /\ [][\A i \in Ships : players'[i].hp <= players[i].hp]_vars

(* Both ships have lost health and a ship has just pressed into a blocking *)
(* cell.                                                                   *)
C8_Witness ==
    /\ pc = "Draw"
    /\ players[0].hp < START_HP
    /\ players[1].hp < START_HP
    /\ \E i \in Ships : CellBlocking(players[i].x + players[i].vx,
                                     players[i].y + players[i].vy)

(* C9 Projectile termination: a slot that HandleInput activates lies on    *)
(* the firing ship's cell and is active; UpdateShips changes no slot; and  *)
(* UpdateProjectiles deactivates an active projectile whose next cell is   *)
(* blocking, leaving its position alone, and otherwise keeps it active and *)
(* moves it one step.  So a shot fired at a blocking neighbour is active   *)
(* after the fire and inactive, in place, after exactly one advance.       *)
C9_ProjectileTermination ==
    [][\A i \in Ships : \A j \in Slots :
          LET s == players[i]
              p == players[i].projectiles[j]
              q == players'[i].projectiles[j]
          IN  /\ (pc = "HandleInput" /\ ~p.active /\ q.active) =>
                    q.x = s.x /\ q.y = s.y /\ map[q.y][q.x] = "."
              /\ pc = "UpdateShips" => q = p
              /\ (pc = "UpdateProjectiles" /\ p.active) =>
                    IF CellBlocking(p.x + p.dx, p.y + p.dy)
                    THEN ~q.active /\ q.x = p.x /\ q.y = p.y
                    ELSE q.active /\ q.x = p.x + p.dx /\ q.y = p.y + p.dy]_vars

(* Player 2 fired into the wall next to it: after the advance of the same  *)
(* tick the shot is inactive and still on the cell it was fired from.      *)
C9_Witness ==
    /\ pc = "CheckHits"
    /\ "RIGHT_SHIFT" \in keyPressed
    /\ LET p == players[1].projectiles[0]
       IN  /\ ~p.active
           /\ p.x = players[1].x /\ p.y = players[1].y
           /\ p.dx = players[1].vx /\ p.dy = players[1].vy
           /\ CellBlocking(p.x + p.dx, p.y + p.dy)

(* The end-to-end scenario from a start with player 2's ship on (bx, by).  *)
EndToEnd(bx, by) ==
    LET a == players[0]
        b == players[1]
        shot == players[0].projectiles[0]
    IN  /\ (cursor = 0 /\ live = 0 /\ pc = "HandleInput") =>
              /\ a.x = 2 /\ a.y = 2 /\ a.hp = 3
              /\ b.x = bx /\ b.y = by /\ b.hp = 3
              /\ \A r \in 0 .. 9 : \A c \in 0 .. 19 :
                    (r = 0 \/ r = 9 \/ c = 0 \/ c = 19) => map[r][c] = "#"
        /\ (OnTrace(Opening, 1) /\ pc = "UpdateShips") =>
              /\ shot.active /\ shot.x = 2 /\ shot.y = 2
              /\ shot.dx = 0 /\ shot.dy = -1
        /\ (OnTrace(Opening, 1) /\ pc = "Draw") =>
              shot.active /\ shot.x = 2 /\ shot.y = 1
        /\ (OnTrace(Opening, 2) /\ pc = "Draw") =>
              ~shot.active /\ shot.x = 2 /\ shot.y = 1 /\ map[0][2] = "#"
        /\ (OnTrace(Opening, 3) /\ pc = "Draw") =>
              ~shot.active /\ a.hp = 3 /\ b.hp = 3 /\ ~gameOver

(* C10 End-to-end scenario, as claimed: ship A on (2,2) and ship B on      *)
(* (17,7), both with health 3; A fires once standing still; the shot goes  *)
(* up from (2,2) to (2,1), is blocked at (2,0) on its second advance, and  *)
(* after 3 ticks slot 0 is inactive, both healths are 3, gameOver is false *)
C10_EndToEnd_Original == EndToEnd(17, 7)

(* C10 End-to-end scenario, amended: the same with ship B starting on      *)
(* (18,8), the cell InitGame puts it on.                                   *)
C10_EndToEnd == EndToEnd(18, 8)

(* Three ticks after the shot was fired: it lies inactive on (2,1).        *)
C10_Witness ==
    /\ OnTrace(Opening, 3)
    /\ pc = "Draw"
    /\ ~players[0].projectiles[0].active
    /\ players[0].projectiles[0].x = 2 /\ players[0].projectiles[0].y = 1

(* The order of the calls in the main loop's body.                         *)
CallOrder ==
    /\ pc = "HandleInput" => pc' \in {"UpdateShips", "Draw"}
    /\ pc = "UpdateShips" => pc' = "UpdateProjectiles"
    /\ pc = "UpdateProjectiles" => pc' = "CheckHits"
    /\ pc = "CheckHits" => pc' = "Draw"
    /\ pc = "Draw" => pc' = "HandleInput"

(* The cell ship s is on after UpdateShips has applied its velocity.       *)
PostMove(s) ==
    IF CellBlocking(s.x + s.vx, s.y + s.vy)
    THEN [x |-> s.x, y |-> s.y]
    ELSE [x |-> s.x + s.vx, y |-> s.y + s.vy]

(* C11 Step ordering, as claimed: a ship's movement is applied before its  *)
(* fire action, so a projectile fired in a tick is created on the cell the *)
(* ship is on after that tick's movement; projectiles are then advanced,   *)
(* hits resolved and the terminal condition checked.                       *)
C11_StepOrdering_Original ==
    [][/\ CallOrder
       /\ pc = "HandleInput" =>
            \A i \in Ships : \A j \in Slots :
                (~players[i].projectiles[j].active
                    /\ players'[i].projectiles[j].active) =>
                    /\ players'[i].projectiles[j].x = PostMove(players'[i]).x
                    /\ players'[i].projectiles[j].y = PostMove(players'[i]).y]_vars

(* C11 Step ordering, amended: a ship's fire action is applied before its  *)
(* movement (HandleInput sets the velocity and fires without moving the    *)
(* ship, UpdateShips moves it afterwards), so a projectile fired in a tick *)
(* is created on the cell the ship is on before that tick's movement;      *)
(* projectiles are then advanced and hits resolved.                        *)
C11_StepOrdering ==
    [][/\ CallOrder
       /\ pc = "HandleInput" =>
            \A i \in Ships :
                /\ players'[i].x = players[i].x
                /\ players'[i].y = players[i].y
                /\ \A j \in Slots :
                    (~players[i].projectiles[j].active
                        /\ players'[i].projectiles[j].active) =>
                        /\ players'[i].projectiles[j].x = players[i].x
                        /\ players'[i].projectiles[j].y = players[i].y]_vars

(* Player 1 fired while moving right: after UpdateShips the ship is one    *)
(* cell ahead of the fresh shot, which lies where the ship was.            *)
C11_Witness ==
    /\ pc = "UpdateProjectiles"
    /\ "LEFT_SHIFT" \in keyPressed
    /\ players[0].vx = MAX_SPEED /\ players[0].vy = 0
    /\ \E j \in Slots :
        /\ players[0].projectiles[j].active
        /\ players[0].projectiles[j].x = players[0].x - 1
        /\ players[0].projectiles[j].y = players[0].y
        /\ players[0].projectiles[j].dx = MAX_SPEED

(* C12 Hit resolution is exhaustive: CheckHits takes one hp from a ship    *)
(* for each opposing active projectile on its cell and deactivates every   *)
(* such projectile, in both directions; so at the end of every tick no     *)
(* active projectile lies on the opposing ship's cell.                     *)
C12_HitsExhaustive ==
    /\ [](pc = "Draw" =>
            \A i \in Ships : ShotsOn(players[1 - i], players[i]) = {})
    /\ [][pc = "CheckHits" =>
            \A i \in Ships :
                /\ players'[i].hp =
                      players[i].hp - Cardinality(ShotsOn(players[1 - i], players[i]))
                /\ \A j \in ShotsOn(players[1 - i], players[i]) :
                      ~players'[1 - i].projectiles[j].active]_vars

(* The fire key of each player.                                            *)
FireKey(i) == IF i = 0 THEN "LEFT_SHIFT" ELSE "RIGHT_SHIFT"

(* The lowest inactive slot of a ship that has one.                        *)
LowestInactive(ship) ==
    CHOOSE k \in Slots :
        /\ ~ship.projectiles[k].active
        /\ \A j \in Slots : j < k => ship.projectiles[j].active

(* C13 Fire action: when HandleInput runs, finds a ship's fire key pressed *)
(* and the ship has an inactive slot, the lowest-index inactive slot       *)
(* becomes active on the ship's cell, with the ship's velocity of this     *)
(* tick as its direction, or (0,-1) when that velocity is (0,0), and the   *)
(* ship's other slots are unchanged; a ship whose fire key is not pressed  *)
(* keeps all its slots.                                                    *)
C13_FireAction ==
    [][(pc = "HandleInput" /\ pc' = "UpdateShips") =>
        \A i \in Ships :
            LET s == players[i]
                t == players'[i]
            IN  /\ (FireKey(i) \in keyPressed /\ ~AllActive(s)) =>
                    LET k == LowestInactive(s)
                    IN  /\ t.projectiles[k].active
                        /\ t.projectiles[k].x = s.x /\ t.projectiles[k].y = s.y
                        /\ IF t.vx = 0 /\ t.vy = 0
                           THEN t.projectiles[k].dx = 0 /\ t.projectiles[k].dy = -1
                           ELSE /\ t.projectiles[k].dx = t.vx
                                /\ t.projectiles[k].dy = t.vy
                        /\ \A j \in Slots \ {k} : t.projectiles[j] = s.projectiles[j]
                /\ FireKey(i) \notin keyPressed => t.projectiles = s.projectiles]_vars

(* Player 1, standing still, has fired into slot 0, which had fallen free  *)
(* while slot 1 was still in flight: the new shot points up.               *)
C13_Witness ==
    /\ pc = "UpdateShips"
    /\ "LEFT_SHIFT" \in keyPressed
    /\ players[0].vx = 0 /\ players[0].vy = 0
    /\ players[0].projectiles[0].active
    /\ players[0].projectiles[0].x = players[0].x
    /\ players[0].projectiles[0].y = players[0].y
    /\ players[0].projectiles[0].dx = 0 /\ players[0].projectiles[0].dy = -1
    /\ players[0].projectiles[1].active
    /\ players[0].projectiles[1].dx = MAX_SPEED

(* C14 Winner determination: whenever gameOver is set, either both healths *)
(* are <= 0 and the message is the tie, or exactly one ship has health > 0 *)
(* and the message names that ship the winner.                             *)
C14_WinnerDetermination ==
    gameOver =>
        LET hpA == players[0].hp
            hpB == players[1].hp
            msg == GameOverMessage(hpA, hpB)
        IN  \/ hpA <= 0 /\ hpB <= 0 /\ msg = "TIE"
            \/ hpA > 0 /\ hpB <= 0 /\ msg = "Winner: Player1"
            \/ hpB > 0 /\ hpA <= 0 /\ msg = "Winner: Player2"

(* The game ended with player 1 sunk and player 2 alive.                   *)
C14_Witness ==
    /\ gameOver
    /\ pc = "Draw"
    /\ players[0].hp <= 0
    /\ players[1].hp > 0

C16_ActiveWellFormed ==
    \A i \in Ships : \A j \in Slots :
        LET p == players[i].projectiles[j]
        IN  p.active =>
                /\ p.x >= 0 /\ p.x < 20 /\ p.y >= 0 /\ p.y < 10
                /\ map[p.y][p.x] = "."
                /\ p.dx \in {-1, 0, 1} /\ p.dy \in {-1, 0, 1}
                /\ ~(p.dx = 0 /\ p.dy = 0)

(* Player 1 fired at the obstacle next to it: the advance has deactivated  *)
(* the shot in front of the 'X' cell instead of moving it there.           *)
C16_Witness ==
    /\ pc = "CheckHits"
    /\ "LEFT_SHIFT" \in keyPressed
    /\ \E j \in Slots :
        LET p == players[0].projectiles[j]
        IN  /\ ~p.active
            /\ p.x = players[0].x /\ p.y = players[0].y
            /\ p.dx = players[0].vx /\ p.dy = players[0].vy
            /\ InGrid(p.x + p.dx, p.y + p.dy)
            /\ map[p.y + p.dy][p.x + p.dx] = "X"
    /\ \E i \in Ships : \E j \in Slots : players[i].projectiles[j].active

(* The number of advances after which an active projectile is inactive if  *)
(* nothing but UpdateProjectiles touches it: the distance, along its       *)
(* direction, to the first blocking cell (NoEnd if there is none).         *)
NoEnd == MAP_WIDTH + MAP_HEIGHT

AdvancesFrom(x, y, dx, dy) ==
    LET ks == {k \in 1 .. MAP_WIDTH : CellBlocking(x + k * dx, y + k * dy)}
    IN  IF ks = {} THEN NoEnd
        ELSE CHOOSE k \in ks : \A m \in ks : k <= m

(* The same, tabulated once for the cells of the grid.                     *)
AdvancesTable ==
    [x \in 0 .. MAP_WIDTH - 1 |-> [y \in 0 .. MAP_HEIGHT - 1 |->
        [dx \in -1 .. 1 |-> [dy \in -1 .. 1 |-> AdvancesFrom(x, y, dx, dy)]]]]

AdvancesLeft(p) ==
    IF InGrid(p.x, p.y) /\ p.dx \in -1 .. 1 /\ p.dy \in -1 .. 1
    THEN AdvancesTable[p.x][p.y][p.dx][p.dy]
    ELSE AdvancesFrom(p.x, p.y, p.dx, p.dy)

(* C17 Projectile lifetime: every active projectile has at most 18         *)
(* advances left, and each UpdateProjectiles, which runs in every tick of  *)
(* a match that is not over, either deactivates it (when one is left) or   *)
(* leaves it with one advance fewer; so a projectile that becomes active   *)
(* is inactive again after at most 18 further ticks, unless the match ends *)
(* first.                                                                  *)
C17_ProjectileLifetime ==
    /\ [](\A i \in Ships : \A j \in Slots :
            players[i].projectiles[j].active =>
                AdvancesLeft(players[i].projectiles[j]) <= 18)
    /\ [][/\ (pc = "HandleInput" /\ ~gameOver) => pc' = "UpdateShips"
          /\ pc = "UpdateShips" => pc' = "UpdateProjectiles"
          /\ pc = "UpdateProjectiles" =>
                \A i \in Ships : \A j \in Slots :
                    LET p == players[i].projectiles[j]
                        q == players'[i].projectiles[j]
                    IN  p.active =>
                            IF AdvancesLeft(p) = 1 THEN ~q.active
                            ELSE q.active /\ AdvancesLeft(q) = AdvancesLeft(p) - 1
          /\ pc # "HandleInput" =>
                \A i \in Ships : \A j \in Slots :
                    players'[i].projectiles[j].active =>
                        /\ players[i].projectiles[j].active
                        /\ players'[i].projectiles[j].dx = players[i].projectiles[j].dx
                        /\ players'[i].projectiles[j].dy = players[i].projectiles[j].dy]_vars

(* Player 1's first shot of the volley, fired on (1,2) to the right, has   *)
(* just gone inactive on (18,2), in its 18th advance; the match is on.     *)
C17_Witness ==
    /\ OnTrace(Volley, 19)
    /\ pc = "CheckHits"
    /\ ~gameOver
    /\ ~players[0].projectiles[0].active
    /\ players[0].projectiles[0].x = 18 /\ players[0].projectiles[0].y = 2
    /\ players[0].projectiles[1].active
    /\ players[0].projectiles[1].x = 18

====
